---- MODULE Spec2Model ----
(***************************************************************************)
(* A model of the Maine fish-stocking map.                                 *)
(*                                                                         *)
(*   FishMap.py           the Streamlit page: df_updated.csv is loaded,    *)
(*                        the widgets give the filter arguments, and each  *)
(*                        widget change reruns the script, which calls     *)
(*                        update_map (create_base_map, filter_data, one    *)
(*                        marker per filtered group).      SpecApp         *)
(*   update_data_2025.py  the yearly update: main() reads the spreadsheet, *)
(*                        the manual coordinates and df_updated.csv, and   *)
(*                        rewrites df_updated.csv and                      *)
(*                        coordinate_reference.csv.        SpecUpdate      *)
(*                                                                         *)
(* Text is a sequence of one-character strings, so that strip, upper,      *)
(* lower, "in" (substring) and float() are computed, not assumed.  A cell  *)
(* of a table is Nan (pandas' missing value), Num(n) or Str(text).         *)
(***************************************************************************)
EXTENDS Integers, Sequences, FiniteSets, TLC

VARIABLES
    df_updated,        \* FishMap.py: the frame read from df_updated.csv (line 9)
    widgets,           \* FishMap.py: the widget values of the last script run
    base_map_cache,    \* FishMap.py: the value st.cache_data keeps for create_base_map
    filtered_groups,   \* FishMap.py: what filter_data gave in the last run
    cached_map,        \* FishMap.py: what update_map gave in the last run
    csv_file,          \* update_data_2025.py: the rows of df_updated.csv on disk
    coord_ref_file,    \* update_data_2025.py: the rows of coordinate_reference.csv
    last_run           \* update_data_2025.py: the inputs and the outcome of the last main()

vars == <<df_updated, widgets, base_map_cache, filtered_groups, cached_map,
          csv_file, coord_ref_file, last_run>>

appVars == <<df_updated, widgets, base_map_cache, filtered_groups, cached_map>>

updateVars == <<csv_file, coord_ref_file, last_run>>

----------------------------------------------------------------------------
(* Bounds of the model. *)

\* Quantities in the data and in the minimum-quantity box are 0..MaxQty.
MaxQty == 1

\* df_updated.csv never holds more rows than this when main() is run again.
MaxCsvRows == 3

----------------------------------------------------------------------------
(* Text and cells. *)

Nan == [k |-> "nan"]

\* Python's None in a cell (a column set to None)
None == [k |-> "none"]

Num(n) == [k |-> "num", v |-> n]

Str(s) == [k |-> "str", s |-> s]

IsNan(c) == c.k = "nan"

IsNum(c) == c.k = "num"

IsStr(c) == c.k = "str"

\* pd.notna: neither nan nor None
NotNa(c) == c.k \notin {"nan", "none"}

\* The characters of the model's texts, in code-point order.
Chars ==
    <<" ", "(", ")", "-", ".", "/",
      "0", "1", "2", "3", "4", "5", "6", "7", "8", "9",
      "A", "B", "C", "D", "E", "F", "G", "H", "I", "J", "K", "L", "M",
      "N", "O", "P", "Q", "R", "S", "T", "U", "V", "W", "X", "Y", "Z",
      "a", "b", "c", "d", "e", "f", "g", "h", "i", "j", "k", "l", "m",
      "n", "o", "p", "q", "r", "s", "t", "u", "v", "w", "x", "y", "z">>

CharSet == {Chars[i] : i \in 1..Len(Chars)}

\* ord(c), as a place in Chars
Ord == [c \in CharSet |-> CHOOSE i \in 1..Len(Chars) : Chars[i] = c]

\* c.lower() and c.upper() of a character
LowerChar ==
    [c \in CharSet |->
        IF Ord[c] >= Ord["A"] /\ Ord[c] <= Ord["Z"]
        THEN Chars[Ord[c] + (Ord["a"] - Ord["A"])] ELSE c]

UpperChar ==
    [c \in CharSet |->
        IF Ord[c] >= Ord["a"] /\ Ord[c] <= Ord["z"]
        THEN Chars[Ord[c] - (Ord["a"] - Ord["A"])] ELSE c]

\* str.lower
Lower(s) == [i \in 1..Len(s) |-> LowerChar[s[i]]]

\* str.upper
Upper(s) == [i \in 1..Len(s) |-> UpperChar[s[i]]]

\* str.strip: leading and trailing blanks removed
Strip(s) ==
    LET inked == {i \in 1..Len(s) : s[i] # " "}
    IN IF inked = {} THEN <<>>
       ELSE SubSeq(s, CHOOSE i \in inked : \A j \in inked : i <= j,
                      CHOOSE i \in inked : \A j \in inked : j <= i)

\* needle in hay (Python's substring test on str)
Contains(hay, needle) ==
    \E i \in 1..(Len(hay) - Len(needle) + 1) :
        SubSeq(hay, i, i + Len(needle) - 1) = needle

DigitValue == [c \in {Chars[i] : i \in Ord["0"]..Ord["9"]} |-> Ord[c] - Ord["0"]]

IsDigit(c) == c \in DOMAIN DigitValue

RECURSIVE DecimalValue(_)
DecimalValue(s) ==
    IF s = <<>> THEN 0
    ELSE 10 * DecimalValue(SubSeq(s, 1, Len(s) - 1)) + DigitValue[s[Len(s)]]

IsDecimal(s) == s # <<>> /\ \A i \in 1..Len(s) : IsDigit(s[i])

RECURSIVE DecimalText(_)
DecimalText(n) ==
    IF n < 10 THEN <<Chars[Ord["0"] + n]>>
    ELSE DecimalText(n \div 10) \o <<Chars[Ord["0"] + (n % 10)]>>

\* str(value) of a cell: str(nan) is 'nan', str of a float 2.0 is '2.0'
StrOf(c) ==
    CASE IsNan(c) -> <<"n", "a", "n">>
      [] c = None -> <<"N", "o", "n", "e">>
      [] IsStr(c) -> c.s
      [] IsNum(c) -> DecimalText(c.v) \o <<".", "0">>

\* float(value): a number as it is, a text when it is a decimal numeral
\* (blanks around it allowed), ValueError otherwise
Float(c) ==
    CASE IsNum(c) -> [ok |-> TRUE, v |-> c.v]
      [] IsStr(c) -> LET t == Strip(c.s)
                     IN IF IsDecimal(t) THEN [ok |-> TRUE, v |-> DecimalValue(t)]
                        ELSE [ok |-> FALSE, v |-> 0]
      [] IsNan(c) -> [ok |-> FALSE, v |-> 0]

\* s < t for texts, as Python compares str (by code point, then by length)
RECURSIVE TextLess(_, _)
TextLess(s, t) ==
    CASE t = <<>> -> FALSE
      [] s = <<>> -> TRUE
      [] s[1] # t[1] -> Ord[s[1]] < Ord[t[1]]
      [] OTHER -> TextLess(Tail(s), Tail(t))

\* a < b for tuples of texts
RECURSIVE TupleLess(_, _)
TupleLess(a, b) ==
    CASE b = <<>> -> FALSE
      [] a = <<>> -> TRUE
      [] a[1] # b[1] -> TextLess(a[1], b[1])
      [] OTHER -> TupleLess(Tail(a), Tail(b))

\* The elements of a set of tuples of texts, in ascending order.
\* (the n-th is the one with n - 1 elements below it)
Sorted(S) ==
    [n \in 1..Cardinality(S) |->
        CHOOSE a \in S : Cardinality({b \in S : TupleLess(b, a)}) = n - 1]

Range(f) == {f[i] : i \in DOMAIN f}

----------------------------------------------------------------------------
(* FishMap.py: the data the page is given.                                  *)

BROOK_TROUT == <<"B", "R", "O", "O", "K", " ", "T", "R", "O", "U", "T">>

NORTHERN_PIKE == <<"N", "O", "R", "T", "H", "E", "R", "N", " ", "P", "I", "K", "E">>

ARCTIC_CHAR == <<"A", "R", "C", "T", "I", "C", " ", "C", "H", "A", "R">>

\* 'N/A'
NA == <<"N", "/", "A">>

\* 'N/A (Not Stocked)'
NOT_STOCKED ==
    <<"N", "/", "A", " ", "(", "N", "o", "t", " ", "S", "t", "o", "c", "k", "e", "d", ")">>

\* (WATER, TOWN, COUNTY) with the coordinates of the place.  The search 'A'
\* matches the first by its water, the second by its town, the third by its
\* county and the fourth not at all; the fourth has no coordinates and the last
\* no county.
AppPlaces ==
    { [WATER |-> Str(<<"A", "c">>), TOWN |-> Str(<<"c">>), COUNTY |-> Str(<<"c">>),
       X_coord |-> Num(1), Y_coord |-> Num(1)],
      [WATER |-> Str(<<"c">>), TOWN |-> Str(<<"b", "a">>), COUNTY |-> Str(<<"c">>),
       X_coord |-> Num(2), Y_coord |-> Num(2)],
      [WATER |-> Str(<<"c">>), TOWN |-> Str(<<"c">>), COUNTY |-> Str(<<"a", "b">>),
       X_coord |-> Num(2), Y_coord |-> Num(1)],
      [WATER |-> Str(<<"c">>), TOWN |-> Str(<<"c">>), COUNTY |-> Str(<<"c", "b">>),
       X_coord |-> Nan, Y_coord |-> Nan],
      [WATER |-> Str(<<"c">>), TOWN |-> Str(<<"a">>), COUNTY |-> Nan,
       X_coord |-> Num(1), Y_coord |-> Num(1)] }

AppSpecies == {Str(BROOK_TROUT), Str(ARCTIC_CHAR)}

\* A QTY cell of a numeric column: empty or a number.
NumericQty == {Nan} \cup {Num(n) : n \in 0..MaxQty}

\* A QTY cell of a column that read_csv left as text: empty, blank, a word, or
\* the text of a positive number.
TextQty == {Nan, Str(<<" ">>), Str(<<"x">>)} \cup {Str(DecimalText(n)) : n \in 1..MaxQty}

\* A DATE cell: empty, the last day of June, the first of July, a word, 'NaT'.
AppDates ==
    { Nan,
      Str(<<"6", "/", "3", "0", "/", "2", "0", "2", "4">>),
      Str(<<"7", "/", "1", "/", "2", "0", "2", "4">>),
      Str(<<"x", "y", "z">>),
      Str(<<"N", "a", "T">>) }

AppAbundance == {Nan, Str(<<"R", "a", "r", "e">>)}

AppRow(place, species, qty, date, abundance) ==
    [WATER |-> place.WATER, TOWN |-> place.TOWN, COUNTY |-> place.COUNTY,
     SPECIES |-> species, QTY |-> qty, DATE |-> date, ABUNDANCE |-> abundance,
     X_coord |-> place.X_coord, Y_coord |-> place.Y_coord]

\* The place of the rows whose every reading is tried.
FirstPlace == CHOOSE p \in AppPlaces : p.WATER = Str(<<"A", "c">>)

\* The rows of the model's files: every species, quantity, date and abundance at
\* the first place; at the other places a trout with the largest quantity and an
\* Arctic Char without abundance whose quantity is the text of a number.
AppRows ==
    { AppRow(FirstPlace, sp, q, d, a) :
        sp \in AppSpecies, q \in NumericQty \cup TextQty, d \in AppDates, a \in AppAbundance }
    \cup
    { AppRow(p, Str(BROOK_TROUT), q, Nan, Nan) :
        p \in AppPlaces, q \in {Num(MaxQty), Str(<<"x">>)} }
    \cup
    { AppRow(p, Str(ARCTIC_CHAR), Str(DecimalText(MaxQty)), Nan, Nan) : p \in AppPlaces }

\* The second row of a two-row file: a trout at the first place, a trout with a
\* word for a quantity at the place without coordinates, or an Arctic Char
\* without abundance at the first place with the text of a number for a quantity.
SecondRows ==
    { AppRow(FirstPlace, Str(BROOK_TROUT), Num(MaxQty), Nan, Nan),
      AppRow(CHOOSE p \in AppPlaces : IsNan(p.X_coord), Str(BROOK_TROUT), Str(<<"x">>), Nan, Nan),
      AppRow(FirstPlace, Str(ARCTIC_CHAR), Str(DecimalText(MaxQty)), Nan, Nan) }

\* pd.read_csv gives a column one type: QTY is numeric when every cell is empty
\* or a number, and text (every filled cell a str) when some cell is no number.
QtyColumnRead(rows) ==
    \/ \A i \in 1..Len(rows) : rows[i].QTY \in NumericQty
    \/ /\ \A i \in 1..Len(rows) : rows[i].QTY \in TextQty
       /\ \E i \in 1..Len(rows) : IsStr(rows[i].QTY) /\ ~Float(rows[i].QTY).ok

\* The frames pd.read_csv("df_updated.csv") can give: one or two rows, with or
\* without an ABUNDANCE column (without it no row has an abundance).
AppFrames ==
    { f \in [rows : {<<r>> : r \in AppRows} \cup {<<r, s>> : r \in AppRows, s \in SecondRows},
             has_abundance_column : BOOLEAN] :
        /\ QtyColumnRead(f.rows)
        /\ ~f.has_abundance_column => \A i \in 1..Len(f.rows) : IsNan(f.rows[i].ABUNDANCE) }

----------------------------------------------------------------------------
(* FishMap.py: filter_data.                                                 *)

\* pd.to_datetime of a text: 'NaT' gives NaT without an error; month/day/year
\* gives a timestamp; anything else raises.
RECURSIVE SplitOn(_, _)
SplitOn(s, c) ==
    IF \A i \in 1..Len(s) : s[i] # c THEN <<s>>
    ELSE LET at == CHOOSE i \in 1..Len(s) : s[i] = c /\ \A j \in 1..(i - 1) : s[j] # c
         IN <<SubSeq(s, 1, at - 1)>> \o SplitOn(SubSeq(s, at + 1, Len(s)), c)

to_datetime(text) ==
    LET parts == SplitOn(text, "/")
        month == DecimalValue(parts[1])
    IN IF Lower(text) = <<"n", "a", "t">> THEN [k |-> "NaT"]
       ELSE IF /\ Len(parts) = 3
               /\ \A i \in 1..3 : IsDecimal(parts[i])
               /\ month \in 1..12
               /\ DecimalValue(parts[2]) \in 1..31
            THEN [k |-> "Timestamp", month |-> month]
            ELSE [k |-> "raise"]

\* lines 36-37
has_date(row) ==
    LET date_str == Strip(StrOf(row.DATE))
    IN date_str # <<>> /\ Lower(date_str) # <<"n", "a", "n">>

\* A season filter whose Spring ends with May.
season_match_spring_to_may(row, show_spring, show_fall) ==
    IF has_date(row) /\ (show_spring \/ show_fall)
    THEN LET d == to_datetime(row.DATE.s)
         IN CASE d.k = "raise" -> TRUE
              [] d.k = "NaT" -> FALSE
              [] d.k = "Timestamp" ->
                    \/ show_spring /\ d.month < 6
                    \/ show_fall /\ d.month >= 7
    ELSE TRUE

\* lines 40-46.  NaT.month is nan, and every comparison with nan is False.
season_match(row, show_spring, show_fall) ==
    IF has_date(row) /\ (show_spring \/ show_fall)
    THEN LET d == to_datetime(row.DATE.s)
         IN CASE d.k = "raise" -> TRUE
              [] d.k = "NaT" -> FALSE
              [] d.k = "Timestamp" ->
                    \/ show_spring /\ d.month <= 6
                    \/ show_fall /\ d.month >= 7
    ELSE TRUE

\* lines 59-60: the row has abundance data
has_abundance(row) ==
    LET abundance_str == Strip(StrOf(row.ABUNDANCE))
    IN /\ NotNa(row.ABUNDANCE)
       /\ abundance_str # <<>>
       /\ Lower(abundance_str) # <<"n", "a", "n">>

\* lines 54-62
is_arctic_char(row, has_abundance_column) ==
    /\ row.SPECIES = Str(ARCTIC_CHAR)
    /\ has_abundance_column
    /\ has_abundance(row)

\* line 70: pd.isna(qty_value) or str(qty_value).strip() == ''
qty_is_empty(row) == IsNan(row.QTY) \/ Strip(StrOf(row.QTY)) = <<>>

\* lines 49-77: qty_value when the quantity filter is reached.  The parsing of
\* lines 70-77 is the else branch of "SPECIES == 'ARCTIC CHAR'": an Arctic Char
\* row without abundance data keeps the cell as it was read.
qty_value(row, has_abundance_column) ==
    LET parsed == Float(row.QTY)
    IN IF row.SPECIES = Str(ARCTIC_CHAR)
       THEN IF is_arctic_char(row, has_abundance_column) THEN Num(0) ELSE row.QTY
       ELSE IF qty_is_empty(row) THEN Num(0)
            ELSE IF parsed.ok THEN Num(parsed.v) ELSE Num(0)

\* lines 51, 65, 75
qty_display(row) ==
    LET parsed == Float(row.QTY)
    IN IF /\ row.SPECIES # Str(ARCTIC_CHAR)
          /\ ~qty_is_empty(row)
          /\ parsed.ok
          /\ parsed.v > 0
       THEN Num(parsed.v) ELSE Str(NA)

\* lines 82-84: "yes", "no", or "TypeError" when a str is compared with min_qty;
\* nan >= min_qty is False.
quantity_match(row, has_abundance_column, min_qty) ==
    LET q == qty_value(row, has_abundance_column)
    IN CASE IsNum(q) /\ q.v >= min_qty -> "yes"
         [] IsNum(q) /\ q.v < min_qty -> "no"
         [] IsNan(q) -> "no"
         [] IsStr(q) -> "TypeError"

\* lines 86-88
row_kept(row, has_abundance_column, w) ==
    /\ row.SPECIES.s \in w.selected_species
    /\ quantity_match(row, has_abundance_column, w.min_qty) = "yes"
    /\ season_match(row, w.show_spring, w.show_fall)

\* lines 89-95: the entry of filtered_rows for row i (size is shown as read).
filtered_row(frame, i) ==
    [row |-> i,
     species |-> frame.rows[i].SPECIES,
     qty |-> qty_display(frame.rows[i]),
     abundance |-> IF is_arctic_char(frame.rows[i], frame.has_abundance_column)
                   THEN Str(Strip(StrOf(frame.rows[i].ABUNDANCE))) ELSE Str(<<>>),
     date |-> IF has_date(frame.rows[i]) THEN frame.rows[i].DATE ELSE Str(NOT_STOCKED)]

\* line 23: groupby leaves out a row with a missing WATER, TOWN or COUNTY.
group_keys(frame) ==
    { <<frame.rows[i].WATER.s, frame.rows[i].TOWN.s, frame.rows[i].COUNTY.s>> :
        i \in {j \in 1..Len(frame.rows) :
                 /\ NotNa(frame.rows[j].WATER) /\ NotNa(frame.rows[j].TOWN)
                 /\ NotNa(frame.rows[j].COUNTY)} }

\* The rows of a group, in the frame's order.
group_rows(frame, key) ==
    SelectSeq([i \in 1..Len(frame.rows) |-> i],
              LAMBDA i : /\ NotNa(frame.rows[i].WATER) /\ NotNa(frame.rows[i].TOWN)
                         /\ NotNa(frame.rows[i].COUNTY)
                         /\ <<frame.rows[i].WATER.s, frame.rows[i].TOWN.s,
                              frame.rows[i].COUNTY.s>> = key)

\* lines 28-30
search_match(key, search_term) ==
    \/ Contains(Lower(key[1]), Lower(search_term))
    \/ Contains(Lower(key[2]), Lower(search_term))
    \/ Contains(Lower(key[3]), Lower(search_term))

\* lines 33-95 for one group
filtered_rows(frame, key, w) ==
    LET kept == SelectSeq(group_rows(frame, key),
                          LAMBDA i : row_kept(frame.rows[i], frame.has_abundance_column, w))
    IN [n \in 1..Len(kept) |-> filtered_row(frame, kept[n])]

\* lines 26-30: the groups in the order of their keys, those the search term
\* matches
visited_groups(frame, w) ==
    SelectSeq(Sorted(group_keys(frame)), LAMBDA key : search_match(key, w.search_term))

\* lines 99-105: the entry of filtered_groups for a group
group_entry(frame, key, w) ==
    [water_name |-> key[1], town_name |-> key[2], county_name |-> key[3],
     group |-> group_rows(frame, key),
     filtered_rows |-> filtered_rows(frame, key, w)]

\* line 84 raises for some row of a visited group
raises_type_error(frame, w, visited) ==
    \E n \in 1..Len(visited) :
        \E i \in Range(group_rows(frame, visited[n])) :
            quantity_match(frame.rows[i], frame.has_abundance_column, w.min_qty)
                = "TypeError"

\* lines 26-107 over the visited groups: a TypeError of any row ends the call;
\* otherwise the groups with some filtered row are returned.
filter_visited(frame, w, visited) ==
    IF raises_type_error(frame, w, visited)
    THEN [raised |-> "TypeError", groups |-> <<>>]
    ELSE [raised |-> "no",
          groups |-> SelectSeq([n \in 1..Len(visited) |-> group_entry(frame, visited[n], w)],
                               LAMBDA g : g.filtered_rows # <<>>)]

\* lines 21-107
filter_data(frame, w) == filter_visited(frame, w, visited_groups(frame, w))

----------------------------------------------------------------------------
(* FishMap.py: update_map and the page.                                     *)

\* lines 15-17: the map create_base_map returns.  st.cache_data keeps the value
\* pickled and gives every caller a copy of it.
create_base_map(cache) == cache

\* A cache that hands every caller the one map it holds (st.cache_resource).
base_map_kept_shared(cache, m) == m

\* lines 15-17: what the cache holds once the caller has added markers to the map
\* it was given and holds map m: the caller wrote to its own copy.
base_map_kept(cache, m) == cache

\* lines 153-154: the mean of a column over a group is nan when no row has a value
mean_is_nan(frame, group, column) ==
    \A i \in Range(group) : IsNan(frame.rows[i][column])

\* lines 118-165: the marker of a filtered group.  Its place (the mean of the
\* group's coordinates plus a random offset) is kept only as "has a place".
marker(frame, group_data) ==
    [water_name |-> group_data.water_name,
     town_name |-> group_data.town_name,
     county_name |-> group_data.county_name,
     popup |-> group_data.filtered_rows,
     located |-> ~(mean_is_nan(frame, group_data.group, "X_coord")
                   \/ mean_is_nan(frame, group_data.group, "Y_coord"))]

\* lines 118-165: the markers in the order of the groups
markers_of(frame, groups) == [n \in 1..Len(groups) |-> marker(frame, groups[n])]

\* lines 161-167: the markers are added to map m.  folium.Marker refuses a place
\* with nan ("Location values cannot contain NaNs") in the versions that validate
\* it and draws it in the older ones: both outcomes are given.
add_markers(m, markers) ==
    {[raised |-> "no", markers |-> m \o markers]}
    \cup
    (IF \E n \in 1..Len(markers) : ~markers[n].located
     THEN {[raised |-> "ValueError", markers |-> <<>>]} ELSE {})

\* lines 110-167: update_map once filter_data has given fd (line 115); a
\* TypeError of filter_data is not caught.
update_map(frame, fd, cache) ==
    IF fd.raised # "no" THEN {[raised |-> fd.raised, markers |-> <<>>]}
    ELSE add_markers(create_base_map(cache), markers_of(frame, fd.groups))

\* line 170
species_list(frame) == {frame.rows[i].SPECIES.s : i \in 1..Len(frame.rows)}

\* line 193: what the user types in the search box
SearchTerms == {<<>>, <<"A">>}

\* line 196: what the user types in the minimum-quantity box
MinQtyTexts == {DecimalText(n) : n \in 0..MaxQty} \cup {<<"x">>}

\* lines 199-202: int(min_qty_text), 0 when it is no number
min_qty_of(text) ==
    LET t == Strip(text)
    IN IF IsDecimal(t) THEN DecimalValue(t)
       ELSE IF t # <<>> /\ t[1] = "-" /\ IsDecimal(Tail(t)) THEN 0 - DecimalValue(Tail(t))
       ELSE IF t # <<>> /\ t[1] = "+" /\ IsDecimal(Tail(t)) THEN DecimalValue(Tail(t))
       ELSE 0

\* lines 181-202: the widgets as the script reads them
Widgets(selected, spring, fall, search, min_text) ==
    [selected_species |-> selected, show_spring |-> spring, show_fall |-> fall,
     search_term |-> search, min_qty |-> min_qty_of(min_text)]

\* lines 181-196: every species selected, no season, no search, minimum '0'
DefaultWidgets(frame) == Widgets(species_list(frame), FALSE, FALSE, <<>>, <<"0">>)

\* One run of the script with widget values w (lines 204-216): the map is built
\* by update_map and shown.
ScriptRun(w) ==
    /\ widgets' = w
    /\ filtered_groups' = filter_data(df_updated, w)
    /\ cached_map' \in update_map(df_updated, filtered_groups', base_map_cache)
    /\ base_map_cache' = base_map_kept(base_map_cache, cached_map'.markers)
    /\ UNCHANGED <<df_updated, updateVars>>

\* The page is opened: the file is read and the script runs with the defaults.
InitApp ==
    /\ df_updated \in AppFrames
    /\ widgets = DefaultWidgets(df_updated)
    /\ base_map_cache = <<>>
    /\ filtered_groups = filter_data(df_updated, widgets)
    /\ cached_map \in update_map(df_updated, filtered_groups, base_map_cache)
    /\ csv_file = <<>>
    /\ coord_ref_file = <<>>
    /\ last_run = [ran |-> FALSE, sheet |-> <<>>, manual |-> <<>>, raised |-> FALSE]

\* The user changes one widget and the script runs again.
SelectSpecies ==
    \E sel \in SUBSET species_list(df_updated) :
        /\ sel # widgets.selected_species
        /\ ScriptRun([widgets EXCEPT !.selected_species = sel])

ToggleSpring == ScriptRun([widgets EXCEPT !.show_spring = ~widgets.show_spring])

ToggleFall == ScriptRun([widgets EXCEPT !.show_fall = ~widgets.show_fall])

Search ==
    \E term \in SearchTerms :
        /\ term # widgets.search_term
        /\ ScriptRun([widgets EXCEPT !.search_term = term])

EnterMinQty ==
    \E text \in MinQtyTexts :
        /\ min_qty_of(text) # widgets.min_qty
        /\ ScriptRun([widgets EXCEPT !.min_qty = min_qty_of(text)])

NextApp == SelectSpecies \/ ToggleSpring \/ ToggleFall \/ Search \/ EnterMinQty

SpecApp == InitApp /\ [][NextApp]_vars

----------------------------------------------------------------------------
(* update_data_2025.py.  A row carries WATER, TOWN, COUNTY, SPECIES and the  *)
(* coordinates; DATE, QTY and SIZE are copied from the spreadsheet to the    *)
(* file untouched and are left out.                                          *)

RAINBOW_TROUT == <<"R", "A", "I", "N", "B", "O", "W", " ", "T", "R", "O", "U", "T">>

LAKE_TROUT == <<"L", "A", "K", "E", " ", "T", "R", "O", "U", "T">>

BROWN_TROUT == <<"B", "R", "O", "W", "N", " ", "T", "R", "O", "U", "T">>

LL_SALMON == <<"L", ".", "L", ".", " ", "S", "A", "L", "M", "O", "N">>

SPLAKE == <<"S", "P", "L", "A", "K", "E">>

\* lines 44-51 and 55: species_code_mapping.get(x, x)
species_code_mapping(x) ==
    CASE x = <<"B", "K", "T">> -> BROOK_TROUT
      [] x = <<"R", "B", "T">> -> RAINBOW_TROUT
      [] x = <<"L", "K", "T">> -> LAKE_TROUT
      [] x = <<"B", "N", "T">> -> BROWN_TROUT
      [] x = <<"L", "L", "S">> -> LL_SALMON
      [] x = <<"S", "P", "K">> -> SPLAKE
      [] OTHER -> x

\* lines 53-56: the SPECIES cell of a spreadsheet row (SPP renamed, line 28)
load_species(cell) ==
    IF IsStr(cell) THEN Str(species_code_mapping(Upper(Strip(cell.s)))) ELSE cell

\* lines 14-73: the frame of a spreadsheet (a sequence of rows WATER, TOWN,
\* COUNTY, SPP)
load_2025_data(sheet) ==
    [i \in 1..Len(sheet) |->
        [WATER |-> sheet[i].WATER, TOWN |-> sheet[i].TOWN, COUNTY |-> sheet[i].COUNTY,
         SPECIES |-> load_species(sheet[i].SPP)]]

\* lines 83, 97, 110: the key of a row
coord_key(row) == <<Upper(Strip(StrOf(row.WATER))), Upper(Strip(StrOf(row.TOWN)))>>

\* lines 82, 96: the row has both coordinates
has_coords(row) == NotNa(row.X_coord) /\ NotNa(row.Y_coord)

\* lines 80-84 and 94-98: the dict built from the rows with coordinates, a later
\* row replacing an earlier one with the same key
RECURSIVE coord_dict(_)
coord_dict(rows) ==
    IF rows = <<>> THEN <<>>
    ELSE IF has_coords(rows[Len(rows)])
         THEN (coord_key(rows[Len(rows)]) :>
                  <<rows[Len(rows)].X_coord, rows[Len(rows)].Y_coord>>)
              @@ coord_dict(SubSeq(rows, 1, Len(rows) - 1))
         ELSE coord_dict(SubSeq(rows, 1, Len(rows) - 1))

\* lines 75-87
load_existing_coordinates(file) == coord_dict(file)

\* lines 89-101
load_manual_coordinates(file) == coord_dict(file)

\* A merge that looks in the existing coordinates first.
merge_row_existing_first(row, existing_coords, manual_coords) ==
    [WATER |-> row.WATER, TOWN |-> row.TOWN, COUNTY |-> row.COUNTY,
     SPECIES |-> row.SPECIES,
     X_coord |-> IF coord_key(row) \in DOMAIN existing_coords
                 THEN existing_coords[coord_key(row)][1]
                 ELSE IF coord_key(row) \in DOMAIN manual_coords
                      THEN manual_coords[coord_key(row)][1] ELSE None,
     Y_coord |-> IF coord_key(row) \in DOMAIN existing_coords
                 THEN existing_coords[coord_key(row)][2]
                 ELSE IF coord_key(row) \in DOMAIN manual_coords
                      THEN manual_coords[coord_key(row)][2] ELSE None]

\* lines 106-118 for one row: manual coordinates first, then existing, else None
merge_row(row, existing_coords, manual_coords) ==
    [WATER |-> row.WATER, TOWN |-> row.TOWN, COUNTY |-> row.COUNTY,
     SPECIES |-> row.SPECIES,
     X_coord |-> IF coord_key(row) \in DOMAIN manual_coords
                 THEN manual_coords[coord_key(row)][1]
                 ELSE IF coord_key(row) \in DOMAIN existing_coords
                      THEN existing_coords[coord_key(row)][1] ELSE None,
     Y_coord |-> IF coord_key(row) \in DOMAIN manual_coords
                 THEN manual_coords[coord_key(row)][2]
                 ELSE IF coord_key(row) \in DOMAIN existing_coords
                      THEN existing_coords[coord_key(row)][2] ELSE None]

\* lines 103-125
merge_coordinates(df, existing_coords, manual_coords) ==
    [i \in 1..Len(df) |-> merge_row(df[i], existing_coords, manual_coords)]

\* line 132
permanent_species == {Str(NORTHERN_PIKE), Str(ARCTIC_CHAR)}

\* A selection that keeps the pike alone.
get_permanent_species_pike_only(file) ==
    SelectSeq(file, LAMBDA row : row.SPECIES = Str(NORTHERN_PIKE))

\* lines 127-138
get_permanent_species(file) ==
    SelectSeq(file, LAMBDA row : row.SPECIES \in permanent_species)

\* A concat with the permanent rows first.
combine_data_permanent_first(df_2025, permanent_data) == permanent_data \o df_2025

\* lines 140-168: the new rows, then the permanent ones
combine_data(df_2025, permanent_data) == df_2025 \o permanent_data

\* line 177: the first row of each (WATER, TOWN, COUNTY) among the rows with
\* coordinates
first_of_place(df, i) ==
    /\ has_coords(df[i])
    /\ \A j \in 1..(i - 1) :
          ~(has_coords(df[j]) /\ df[j].WATER = df[i].WATER /\ df[j].TOWN = df[i].TOWN
            /\ df[j].COUNTY = df[i].COUNTY)

\* lines 175-176: the columns of a reference row
reference_row(t) ==
    [WATER |-> Str(t[3]), TOWN |-> Str(t[2]), COUNTY |-> Str(t[1]),
     X_coord |-> Num(t[4][1]), Y_coord |-> Num(t[5][1])]

\* lines 180: sort_values(['COUNTY', 'TOWN', 'WATER'])
sort_reference(places) == [n \in 1..Len(places) |-> reference_row(places[n])]

\* lines 170-184: one row a place, sorted by county, town and water
create_coordinate_reference(df) ==
    sort_reference(
        Sorted({ <<df[i].COUNTY.s, df[i].TOWN.s, df[i].WATER.s,
                   <<df[i].X_coord.v>>, <<df[i].Y_coord.v>>>> :
                 i \in {j \in 1..Len(df) : first_of_place(df, j)} }))

\* df.to_csv and the pd.read_csv that follows: None and nan are written as an
\* empty field, which is read as nan
to_csv(df) ==
    [i \in 1..Len(df) |->
        [c \in DOMAIN df[i] |-> IF NotNa(df[i][c]) THEN df[i][c] ELSE Nan]]


\* line 232: df_updated[df_2025_with_coords['X_coord'].isna()] indexes the
\* combined frame with a mask of the new rows only; pandas raises IndexingError
\* when the mask's index is not the frame's, that is when permanent rows were
\* appended.  Both files are written by then (lines 218, 223).
summary_raises(permanent_data) == permanent_data # <<>>

\* lines 186-234
main_frame(sheet, manual_file, file) ==
    combine_data(
        merge_coordinates(load_2025_data(sheet),
                          load_existing_coordinates(file),
                          load_manual_coordinates(manual_file)),
        get_permanent_species(file))

(* The files main() is given. *)

FileRow(water, species, coord) ==
    [WATER |-> Str(water), TOWN |-> Str(<<"T">>), COUNTY |-> Str(<<"c">>),
     SPECIES |-> Str(species), X_coord |-> coord, Y_coord |-> coord]

\* The rows df_updated.csv holds before the first run: trout and pike on water A
\* with one or the other coordinates or none, a char on water B.
FileRows ==
    { FileRow(<<"A">>, BROOK_TROUT, Num(1)), FileRow(<<"A">>, BROOK_TROUT, Num(2)),
      FileRow(<<"A">>, NORTHERN_PIKE, Num(1)), FileRow(<<"A">>, NORTHERN_PIKE, Nan),
      FileRow(<<"B">>, ARCTIC_CHAR, Num(2)), FileRow(<<"B">>, BROOK_TROUT, Nan) }

Files == {<<>>} \cup {<<r>> : r \in FileRows} \cup {<<r, t>> : r \in FileRows, t \in FileRows}

SheetRow(water, spp) ==
    [WATER |-> Str(water), TOWN |-> Str(<<"t">>), COUNTY |-> Str(<<"c">>), SPP |-> Str(spp)]

\* The rows of the year's spreadsheet: a brook trout on water A (written 'a ')
\* or B, a pike on water A.
SheetRows ==
    { SheetRow(<<"a", " ">>, <<"b", "k", "t">>),
      SheetRow(<<"B">>, <<"B", "K", "T", " ">>),
      SheetRow(<<"A">>, <<"N", "o", "r", "t", "h", "e", "r", "n", " ", "P", "i", "k", "e">>) }

Sheets == {<<>>} \cup {<<r>> : r \in SheetRows} \cup {<<r, t>> : r \in SheetRows, t \in SheetRows}

ManualRow(water, x, y) ==
    [WATER |-> Str(water), TOWN |-> Str(<<"t">>), X_coord |-> x, Y_coord |-> y]

\* missing_coordinates_2025.csv: empty, water A, water B, or water A with one
\* coordinate missing.
ManualFiles ==
    { <<>>,
      <<ManualRow(<<"a">>, Num(3), Num(3))>>,
      <<ManualRow(<<" ", "B">>, Num(3), Num(3))>>,
      <<ManualRow(<<"A">>, Num(3), Nan)>> }

InitUpdate ==
    /\ csv_file \in Files
    /\ coord_ref_file = <<>>
    /\ last_run = [ran |-> FALSE, sheet |-> <<>>, manual |-> <<>>, raised |-> FALSE]
    /\ df_updated = [rows |-> <<>>, has_abundance_column |-> FALSE]
    /\ widgets = DefaultWidgets(df_updated)
    /\ base_map_cache = <<>>
    /\ filtered_groups = [raised |-> "no", groups |-> <<>>]
    /\ cached_map = [raised |-> "no", markers |-> <<>>]

\* One run of the script (lines 186-237): the combined frame and the reference
\* made from it (line 209) are written to the two files (lines 218, 223).
Main ==
    \E sheet \in Sheets, manual_file \in ManualFiles :
        /\ Len(sheet) + Len(get_permanent_species(csv_file)) <= MaxCsvRows
        /\ \E combined \in {main_frame(sheet, manual_file, csv_file)} :
              /\ csv_file' = to_csv(combined)
              /\ \E coord_reference \in {create_coordinate_reference(combined)} :
                    coord_ref_file' = to_csv(coord_reference)
        /\ last_run' = [ran |-> TRUE, sheet |-> sheet, manual |-> manual_file,
                        raised |-> summary_raises(get_permanent_species(csv_file))]
        /\ UNCHANGED appVars

NextUpdate == Main

SpecUpdate == InitUpdate /\ [][NextUpdate]_vars

----------------------------------------------------------------------------
(* What the claims speak of, read off the state of the page.                *)

Rows == df_updated.rows

\* The row belongs to a group: none of WATER, TOWN, COUNTY is missing.
HasPlace(i) == NotNa(Rows[i].WATER) /\ NotNa(Rows[i].TOWN) /\ NotNa(Rows[i].COUNTY)

\* search_term is a case-insensitive substring of the water, town or county name.
SearchPasses(i) ==
    \E c \in {"WATER", "TOWN", "COUNTY"} :
        /\ NotNa(Rows[i][c])
        /\ Contains(Lower(Rows[i][c].s), Lower(widgets.search_term))

SpeciesSelected(i) == Rows[i].SPECIES.s \in widgets.selected_species

\* filter_data returned, and the row is in the filtered_rows of its group.
Included(i) ==
    /\ filtered_groups.raised = "no"
    /\ \E n \in 1..Len(filtered_groups.groups) :
          LET g == filtered_groups.groups[n]
          IN /\ HasPlace(i)
             /\ <<g.water_name, g.town_name, g.county_name>>
                  = <<Rows[i].WATER.s, Rows[i].TOWN.s, Rows[i].COUNTY.s>>
             /\ \E m \in 1..Len(g.filtered_rows) : g.filtered_rows[m].row = i

\* The quantity of a record as the specification gives it: the number in QTY,
\* and 0 when QTY is empty or not a number.
QuantityOf(i) == IF Float(Rows[i].QTY).ok THEN Float(Rows[i].QTY).v ELSE 0

\* QTY is empty or not a number.
QtyUnusable(i) == ~Float(Rows[i].QTY).ok

DateMissing(i) == IsNan(Rows[i].DATE) \/ Strip(StrOf(Rows[i].DATE)) = <<>>

DateParsed(i) == ~DateMissing(i) /\ to_datetime(Rows[i].DATE.s).k = "Timestamp"

\* DATE is present and gives no date.
DateUnparseable(i) == ~DateMissing(i) /\ ~DateParsed(i)

MonthOf(i) == to_datetime(Rows[i].DATE.s).month

\* The season selection as the widgets describe it: no box, all data; Spring is
\* January to June, Fall is July to December.
SeasonSelected(i) ==
    \/ ~widgets.show_spring /\ ~widgets.show_fall
    \/ widgets.show_spring /\ MonthOf(i) \in 1..6
    \/ widgets.show_fall /\ MonthOf(i) \in 7..12

\* The date matches the season selection: a parsed date by its month, a missing
\* or unparseable one always (it is shown).
SeasonPasses(i) == DateParsed(i) => SeasonSelected(i)

\* The quantity filter of the code passes for the row.
QuantityPasses(i) ==
    quantity_match(Rows[i], df_updated.has_abundance_column, widgets.min_qty) = "yes"

----------------------------------------------------------------------------
(* The claims about FishMap.py, under SpecApp.                              *)

\* C2: filter_data returns exactly the records that match all four filters: a
\* record is in the filtered_rows of its group if and only if its species is
\* selected, the search term is a case-insensitive substring of its water, town or
\* county name, its quantity is at least min_qty, and its date matches the season
\* selection.
C2_ExactlyTheMatchingRecords ==
    \A i \in {j \in 1..Len(Rows) : HasPlace(j)} :
        Included(i) <=> /\ SpeciesSelected(i)
                        /\ SearchPasses(i)
                        /\ QuantityOf(i) >= widgets.min_qty
                        /\ SeasonPasses(i)

\* C3: a non-numeric or empty quantity is never surfaced as an error and counts
\* as 0: for every record with such a QTY, of any species, filter_data completes
\* normally, and the record passes the minimum-quantity filter exactly when
\* min_qty <= 0.
C3_BadQuantityIsZero ==
    \A i \in 1..Len(Rows) :
        QtyUnusable(i) =>
            /\ filtered_groups.raised = "no"
            /\ (HasPlace(i) /\ SearchPasses(i) /\ SpeciesSelected(i) /\ SeasonPasses(i))
                  => (Included(i) <=> widgets.min_qty <= 0)

\* C4: a record whose DATE is present but cannot be parsed is never excluded by
\* the season filter and raises no error: for every season selection filter_data
\* includes it whenever its species is selected and its quantity and location
\* filters pass.
C4_UnparseableDateShown ==
    \A i \in 1..Len(Rows) :
        (/\ DateUnparseable(i) /\ SpeciesSelected(i)
         /\ QuantityPasses(i)
         /\ HasPlace(i) /\ SearchPasses(i))
            => Included(i)

\* C5: for a record with a parseable date the season filter passes if and only
\* if no season box is checked, or Spring is checked and the month is January to
\* June, or Fall is checked and the month is July to December; a record with no
\* date passes it for every selection.  (Read off the rows whose other filters
\* pass, in the calls that return.)
C5_SeasonFilter ==
    filtered_groups.raised = "no" =>
        \A i \in 1..Len(Rows) :
            (/\ HasPlace(i) /\ SearchPasses(i) /\ SpeciesSelected(i) /\ QuantityPasses(i)
             /\ (DateParsed(i) \/ DateMissing(i)))
                => (Included(i) <=> (DateMissing(i) \/ SeasonSelected(i)))

\* C5's case: Spring alone is checked and a July record, whose other filters
\* pass, is left out.
C5_Witness ==
    /\ widgets.show_spring /\ ~widgets.show_fall
    /\ filtered_groups.raised = "no"
    /\ \E i \in 1..Len(Rows) :
          /\ HasPlace(i) /\ SearchPasses(i) /\ SpeciesSelected(i) /\ QuantityPasses(i)
          /\ DateParsed(i) /\ MonthOf(i) = 7
          /\ ~Included(i)

\* C7: every ARCTIC CHAR record whose species is selected and whose location and
\* season filters pass is included for every min_qty, with or without an
\* ABUNDANCE value and whatever its QTY.
C7_ArcticCharAlwaysShown ==
    \A i \in 1..Len(Rows) :
        (/\ Rows[i].SPECIES = Str(ARCTIC_CHAR) /\ SpeciesSelected(i)
         /\ HasPlace(i) /\ SearchPasses(i) /\ SeasonPasses(i))
            => Included(i)

\* The groups with at least one record that passed the filters of the last call.
ShownPlaces ==
    { <<Rows[i].WATER.s, Rows[i].TOWN.s, Rows[i].COUNTY.s>> :
        i \in {j \in 1..Len(Rows) : Included(j)} }

MarkersAt(place) ==
    { n \in 1..Len(cached_map.markers) :
        <<cached_map.markers[n].water_name, cached_map.markers[n].town_name,
          cached_map.markers[n].county_name>> = place }

\* C9: the map update_map returns carries exactly one marker for each group with
\* a record that passed the filters of that call and none for any other group,
\* whatever calls came before.
C9_OneMarkerPerShownGroup ==
    cached_map.raised = "no" =>
        /\ \A place \in ShownPlaces : Cardinality(MarkersAt(place)) = 1
        /\ Len(cached_map.markers) = Cardinality(ShownPlaces)

\* C9's case: a later call (a search is typed) returns a map with one marker
\* where the file has two groups.
C9_Witness ==
    /\ cached_map.raised = "no"
    /\ widgets.search_term # <<>>
    /\ Len(cached_map.markers) = 1
    /\ Cardinality(group_keys(df_updated)) = 2

----------------------------------------------------------------------------
(* The claims about update_data_2025.py, under SpecUpdate.  In a step of    *)
(* Main, csv_file is df_updated.csv before the run and csv_file' after it;  *)
(* last_run' holds the spreadsheet and the manual file of the run.          *)

IsPermanent(row) == row.SPECIES \in {Str(NORTHERN_PIKE), Str(ARCTIC_CHAR)}

\* (WATER, TOWN), each stripped and upper-cased.
PlaceKey(row) == <<Upper(Strip(row.WATER.s)), Upper(Strip(row.TOWN.s))>>

\* The rows of a file that give both coordinates for a key.
RowsFor(rows, key) ==
    {n \in 1..Len(rows) : /\ PlaceKey(rows[n]) = key
                          /\ ~IsNan(rows[n].X_coord) /\ ~IsNan(rows[n].Y_coord)}

\* The coordinates a file gives for a key (those of its last such row).
CoordsFor(rows, key) ==
    LET n == CHOOSE m \in RowsFor(rows, key) : \A o \in RowsFor(rows, key) : o <= m
    IN <<rows[n].X_coord, rows[n].Y_coord>>

\* C1: every NORTHERN PIKE or ARCTIC CHAR row of df_updated.csv before a run of
\* main is a row of df_updated.csv after it.
C1_PermanentRowsKept ==
    [][\A i \in 1..Len(csv_file) :
          IsPermanent(csv_file[i]) => \E j \in 1..Len(csv_file') : csv_file'[j] = csv_file[i]]_vars

\* C1's case: main has run with a spreadsheet of some rows and an Arctic Char row
\* of the earlier file follows them.
C1_Witness ==
    /\ last_run.ran
    /\ Len(last_run.sheet) >= 1
    /\ \E j \in (Len(last_run.sheet) + 1)..Len(csv_file) :
          csv_file[j].SPECIES = Str(ARCTIC_CHAR)

\* C6: merge_coordinates gives each spreadsheet row the manual coordinates of its
\* key (WATER, TOWN stripped and upper-cased) when the manual file has them,
\* otherwise those of df_updated.csv when it has them, otherwise none.
C6_ManualThenExisting ==
    [][\A i \in 1..Len(last_run'.sheet) :
          <<csv_file'[i].X_coord, csv_file'[i].Y_coord>> =
              IF RowsFor(last_run'.manual, PlaceKey(last_run'.sheet[i])) # {}
              THEN CoordsFor(last_run'.manual, PlaceKey(last_run'.sheet[i]))
              ELSE IF RowsFor(csv_file, PlaceKey(last_run'.sheet[i])) # {}
                   THEN CoordsFor(csv_file, PlaceKey(last_run'.sheet[i]))
                   ELSE <<Nan, Nan>>]_vars

\* C6's case: a spreadsheet row took the manual coordinates though the earlier
\* file had others for its key (a kept row of that key still shows them).
C6_Witness ==
    /\ last_run.ran
    /\ \E i \in 1..Len(last_run.sheet) :
          /\ RowsFor(last_run.manual, PlaceKey(csv_file[i])) # {}
          /\ <<csv_file[i].X_coord, csv_file[i].Y_coord>>
               = CoordsFor(last_run.manual, PlaceKey(csv_file[i]))
          /\ \E j \in (Len(last_run.sheet) + 1)..Len(csv_file) :
                /\ PlaceKey(csv_file[j]) = PlaceKey(csv_file[i])
                /\ ~IsNan(csv_file[j].X_coord) /\ ~IsNan(csv_file[j].Y_coord)
                /\ csv_file[j].X_coord # csv_file[i].X_coord

\* C8: after main, df_updated.csv holds the rows of the spreadsheet followed by
\* the permanent rows of the earlier df_updated.csv, in their order: the row count
\* is the sum of the two, and no other row of the earlier file survives.
C8_SheetThenPermanent ==
    [][/\ Len(csv_file') = Len(last_run'.sheet) + Len(SelectSeq(csv_file, IsPermanent))
       /\ \A i \in 1..Len(last_run'.sheet) :
             /\ csv_file'[i].WATER = last_run'.sheet[i].WATER
             /\ csv_file'[i].TOWN = last_run'.sheet[i].TOWN
             /\ csv_file'[i].COUNTY = last_run'.sheet[i].COUNTY
             /\ csv_file'[i].SPECIES = load_species(last_run'.sheet[i].SPP)
       /\ SubSeq(csv_file', Len(last_run'.sheet) + 1, Len(csv_file'))
            = SelectSeq(csv_file, IsPermanent)]_vars

\* C8's case: main has run with a spreadsheet of two rows and one permanent row
\* of the earlier file follows them.
C8_Witness ==
    /\ last_run.ran
    /\ Len(last_run.sheet) = 2
    /\ Len(csv_file) = 3
    /\ ~IsPermanent(csv_file[1])
    /\ IsPermanent(csv_file[3])

\* C10: main is idempotent: a second run with the same spreadsheet and the same
\* manual file leaves df_updated.csv with the rows the first run left.
C10_Idempotent ==
    [][(/\ last_run.ran
        /\ last_run'.sheet = last_run.sheet
        /\ last_run'.manual = last_run.manual) => csv_file' = csv_file]_vars

====
